---- MODULE Spec2Model ----
(***************************************************************************)
(* Multi-server tool-invocation client (multi_server_client.py) together   *)
(* with the flight booking tools it dispatches to                          *)
(* (flight_booking_server.py) and the seeded store (create_flight_db.py).  *)
(*                                                                         *)
(* Text is modelled as a sequence of one-character strings so that the     *)
(* free-text parameter parser (split on newline, split on the first ':',   *)
(* strip, lower) is computed the way the code computes it.                 *)
(***************************************************************************)
EXTENDS Integers, Sequences, FiniteSets, TLC

(***************************************************************************)
(* Bounds                                                                  *)
(***************************************************************************)
\* number of chat_loop iterations that call process_query
MaxTurns == 3

\* available_seats of every seeded flight (the seed draws 50..200)
SeedSeats == 1

\* number of seeded flights kept (the seed creates 20, ids from 1000)
NumFlights == 3

\* connections that run store calls at the same time
NumConns == 2

\* calls started on the connections in one behaviour
MaxStoreCalls == 3

(***************************************************************************)
(* Optional values: None is the empty sequence, Some(x) a one-element one  *)
(***************************************************************************)
None == <<>>

Some(x) == <<x>>

(***************************************************************************)
(* Parameter names, values and user lines as character sequences           *)
(***************************************************************************)
P_flight_id == <<"f", "l", "i", "g", "h", "t", "_", "i", "d">>

P_username == <<"u", "s", "e", "r", "n", "a", "m", "e">>

P_booking_id == <<"b", "o", "o", "k", "i", "n", "g", "_", "i", "d">>

P_departure_airport == <<"d", "e", "p", "a", "r", "t", "u", "r", "e", "_", "a", "i", "r", "p", "o", "r", "t">>

P_arrival_airport == <<"a", "r", "r", "i", "v", "a", "l", "_", "a", "i", "r", "p", "o", "r", "t">>

P_date == <<"d", "a", "t", "e">>

P_instructions == <<"i", "n", "s", "t", "r", "u", "c", "t", "i", "o", "n", "s">>

P_summary == <<"s", "u", "m", "m", "a", "r", "y">>

P_description == <<"d", "e", "s", "c", "r", "i", "p", "t", "i", "o", "n">>

P_start_dateTime == <<"s", "t", "a", "r", "t", "_", "_", "d", "a", "t", "e", "T", "i", "m", "e">>

P_end_dateTime == <<"e", "n", "d", "_", "_", "d", "a", "t", "e", "T", "i", "m", "e">>

P_foo == <<"f", "o", "o">>

V_1000 == <<"1", "0", "0", "0">>

V_9 == <<"9">>

V_1 == <<"1">>

V_john_doe == <<"j", "o", "h", "n", "_", "d", "o", "e">>

V_jane_smith == <<"j", "a", "n", "e", "_", "s", "m", "i", "t", "h">>

V_bob_wilson == <<"b", "o", "b", "_", "w", "i", "l", "s", "o", "n">>

V_nobody == <<"n", "o", "b", "o", "d", "y">>

V_bar == <<"b", "a", "r">>

V_time == <<"t">>

Q_hello == <<"h", "e", "l", "l", "o">>

Q_flight_id == P_flight_id \o <<":", " ">> \o V_1000

Q_username == P_username \o <<":", " ">> \o V_john_doe

Q_booking_id == P_booking_id \o <<":", " ">> \o V_1

Q_foo == P_foo \o <<":", " ">> \o V_bar

Q_quit == <<"Q", "u", "i", "t">>

\* a key typed with a capital and a blank before the separator
Q_Username == <<"U">> \o Tail(P_username) \o <<" ", ":", " ">> \o V_jane_smith

\* answers to a prompt for the calendar tool's parameters, spelled as listed
Q_instructions == P_instructions \o <<":", " ">> \o V_bar

Q_start_dateTime == P_start_dateTime \o <<":", " ">> \o V_time

\* the lines the user types while no tool call is pending: a free question,
\* and a "key: value" line, which no branch parses then
IdleQueries == {Q_hello, Q_flight_id}

\* the lines the user types at the prompt in this model
Queries ==
  {Q_hello, Q_flight_id, Q_username, Q_booking_id, Q_foo, Q_Username,
   Q_instructions, Q_start_dateTime}

(***************************************************************************)
(* str.lower, str.strip, str.split as Python computes them                 *)
(***************************************************************************)
UpperChars == <<"A", "B", "C", "D", "E", "F", "G", "H", "I", "J", "K", "L", "M", "N", "O", "P", "Q", "R", "S", "T", "U", "V", "W", "X", "Y", "Z">>

LowerChars == <<"a", "b", "c", "d", "e", "f", "g", "h", "i", "j", "k", "l", "m", "n", "o", "p", "q", "r", "s", "t", "u", "v", "w", "x", "y", "z">>

Whitespace == {" ", "\t", "\r", "\n"}

LowerChar(c) ==
  IF \E i \in 1..Len(UpperChars) : UpperChars[i] = c
  THEN LowerChars[CHOOSE i \in 1..Len(UpperChars) : UpperChars[i] = c]
  ELSE c

\* s.lower()
Lower(s) == [i \in 1..Len(s) |-> LowerChar(s[i])]

RECURSIVE LStrip(_)
LStrip(s) ==
  IF s # <<>> /\ Head(s) \in Whitespace THEN LStrip(Tail(s)) ELSE s

RECURSIVE RStrip(_)
RStrip(s) ==
  IF s # <<>> /\ s[Len(s)] \in Whitespace
  THEN RStrip(SubSeq(s, 1, Len(s) - 1))
  ELSE s

\* s.strip()
Strip(s) == RStrip(LStrip(s))

\* index of the first occurrence of character c in s, 0 when absent
FirstIndex(s, c) ==
  IF \E i \in 1..Len(s) : s[i] = c
  THEN CHOOSE i \in 1..Len(s) : s[i] = c /\ \A j \in 1..(i - 1) : s[j] # c
  ELSE 0

\* s.split(c): the pieces between every occurrence of c
RECURSIVE Split(_, _)
Split(s, c) ==
  LET i == FirstIndex(s, c)
  IN IF i = 0 THEN <<s>>
     ELSE <<SubSeq(s, 1, i - 1)>> \o Split(SubSeq(s, i + 1, Len(s)), c)

\* variant: the dict is replaced by the new one
Update_replace(d, new) == new

\* dict.update
Update(d, new) ==
  [k \in (DOMAIN d) \cup (DOMAIN new) |-> IF k \in DOMAIN new THEN new[k] ELSE d[k]]

\* the empty dict
EmptyDict == [k \in {} |-> <<>>]

\* a dict built from a sequence of <<key, value>> pairs
Dict(pairs) ==
  [k \in {pairs[i][1] : i \in 1..Len(pairs)} |->
     pairs[CHOOSE i \in 1..Len(pairs) : pairs[i][1] = k][2]]

\* _extract_parameters: one key per line that holds a ':'
RECURSIVE extract_lines(_)
extract_lines(lines) ==
  IF lines = <<>> THEN EmptyDict
  ELSE LET line == lines[Len(lines)]
           rest == extract_lines(SubSeq(lines, 1, Len(lines) - 1))
           i == FirstIndex(line, ":")
       IN IF i = 0 THEN rest
          ELSE Update(rest,
                 Dict(<< <<Lower(Strip(SubSeq(line, 1, i - 1))),
                           Strip(SubSeq(line, i + 1, Len(line)))>> >>))

extract_parameters(text) == extract_lines(Split(text, "\n"))

(***************************************************************************)
(* The store: flights.available_seats, users and bookings                  *)
(***************************************************************************)
\* flight_number = 1000, the first seeded flight_id
FirstFlightId == 1000

FlightIds == FirstFlightId..(FirstFlightId + NumFlights - 1)

\* users table: username -> user_id
Users == Dict(<< <<V_john_doe, 1>>, <<V_jane_smith, 2>>, <<V_bob_wilson, 3>> >>)

\* bookings table after seeding; booking_id is the row's position
SeedBookings ==
  << [user_id |-> 1, flight_id |-> 1000, status |-> "CONFIRMED"],
     [user_id |-> 2, flight_id |-> 1001, status |-> "CONFIRMED"],
     [user_id |-> 3, flight_id |-> 1002, status |-> "PENDING"] >>

SeedDb ==
  [available_seats |-> [f \in FlightIds |-> SeedSeats], bookings |-> SeedBookings]

DigitChars == <<"0", "1", "2", "3", "4", "5", "6", "7", "8", "9">>

IsDigits(s) ==
  s # <<>> /\ \A i \in 1..Len(s) : \E d \in 1..10 : DigitChars[d] = s[i]

DigitVal(c) == (CHOOSE d \in 1..10 : DigitChars[d] = c) - 1

\* the integer a decimal text stands for (the int coercion of an "int" tool argument)
RECURSIVE ToInt(_)
ToInt(s) ==
  IF s = <<>> THEN 0
  ELSE 10 * ToInt(SubSeq(s, 1, Len(s) - 1)) + DigitVal(s[Len(s)])

\* result of a tool whose arguments do not fit its signature
InvalidArguments == "Error executing tool: invalid arguments"

\* book_flight(flight_id: int, username: str); dbError: a statement raised
book_flight(args, db, dbError) ==
  IF ~({P_flight_id, P_username} \subseteq DOMAIN args) \/ ~IsDigits(args[P_flight_id])
  THEN [result |-> InvalidArguments, db |-> db]
  ELSE LET flight_id == ToInt(args[P_flight_id])
           username == args[P_username]
       IN IF dbError
          THEN [result |-> "Error booking flight", db |-> db]
          ELSE IF flight_id \notin DOMAIN db.available_seats
          THEN [result |-> "Error: Flight not found", db |-> db]
          ELSE IF db.available_seats[flight_id] <= 0
          THEN [result |-> "Error: No seats available on this flight", db |-> db]
          ELSE IF username \notin DOMAIN Users
          THEN [result |-> "Error: User not found", db |-> db]
          ELSE [result |-> "Successfully booked flight",
                db |-> [available_seats |->
                          [db.available_seats EXCEPT ![flight_id] = @ - 1],
                        bookings |->
                          Append(db.bookings,
                                 [user_id |-> Users[username],
                                  flight_id |-> flight_id,
                                  status |-> "CONFIRMED"])]]

\* cancel_booking(booking_id: int)
cancel_booking(args, db, dbError) ==
  IF P_booking_id \notin DOMAIN args \/ ~IsDigits(args[P_booking_id])
  THEN [result |-> InvalidArguments, db |-> db]
  ELSE LET booking_id == ToInt(args[P_booking_id])
       IN IF dbError
          THEN [result |-> "Error cancelling booking", db |-> db]
          ELSE IF booking_id \notin 1..Len(db.bookings)
          THEN [result |-> "Error: Booking not found", db |-> db]
          ELSE IF db.bookings[booking_id].status = "CANCELLED"
          THEN [result |-> "Error: Booking is already cancelled", db |-> db]
          ELSE LET flight == db.bookings[booking_id].flight_id
               IN [result |-> "Successfully cancelled booking",
                   db |-> [available_seats |->
                             [f \in DOMAIN db.available_seats |->
                                IF f = flight THEN db.available_seats[f] + 1
                                ELSE db.available_seats[f]],
                           bookings |->
                             [db.bookings EXCEPT ![booking_id].status = "CANCELLED"]]]

\* search_flights(departure_airport, arrival_airport, date): a read
search_flights(args, db, dbError) == [result |-> "flights", db |-> db]

\* get_user_bookings(username: str): a read
get_user_bookings(args, db, dbError) ==
  IF P_username \notin DOMAIN args
  THEN [result |-> InvalidArguments, db |-> db]
  ELSE [result |-> "bookings", db |-> db]

(***************************************************************************)
(* What each backend advertises in list_tools                              *)
(***************************************************************************)
FlightTools ==
  << [name |-> "search_flights",
      description |-> "Search for available flights based on departure, arrival, and date",
      properties |-> <<P_departure_airport, P_arrival_airport, P_date>>,
      required |-> <<>>],
     [name |-> "book_flight",
      description |-> "Book a flight for a user",
      properties |-> <<P_flight_id, P_username>>,
      required |-> <<P_flight_id, P_username>>],
     [name |-> "cancel_booking",
      description |-> "Cancel a flight booking",
      properties |-> <<P_booking_id>>,
      required |-> <<P_booking_id>>],
     [name |-> "get_user_bookings",
      description |-> "Get all bookings for a user",
      properties |-> <<P_username>>,
      required |-> <<P_username>>] >>

\* the calendar backend's event tool, with the parameters the client sends
\* it; its schema is served by the backend: the tool is taken to require its
\* instructions and the start time
CalendarTools ==
  << [name |-> "google_calendar_create_detailed_event",
      description |-> "Create a detailed calendar event",
      properties |-> <<P_instructions, P_summary, P_description,
                       P_start_dateTime, P_end_dateTime>>,
      required |-> <<P_instructions, P_start_dateTime>>] >>

\* a calendar backend that also advertises a tool named like a flight tool
CollidingCalendarTools ==
  CalendarTools \o
  << [name |-> "search_flights",
      description |-> "Search calendar events",
      properties |-> <<P_summary>>,
      required |-> <<>>] >>

\* variant: a name that is already registered keeps its entry
register_first_wins(registry, tools, server_name) ==
  LET names == {tools[i].name : i \in 1..Len(tools)}
      first(n) == CHOOSE i \in 1..Len(tools) :
                    tools[i].name = n /\ \A j \in 1..(i - 1) : tools[j].name # n
  IN [n \in (DOMAIN registry) \cup names |->
        IF n \in DOMAIN registry
        THEN registry[n]
        ELSE [description |-> tools[first(n)].description,
              properties |-> tools[first(n)].properties,
              required |-> tools[first(n)].required,
              server_name |-> server_name]]

\* the loop "for tool in response.tools: self.available_tools[tool.name] = {...}"
register(registry, tools, server_name) ==
  LET names == {tools[i].name : i \in 1..Len(tools)}
      last(n) == CHOOSE i \in 1..Len(tools) :
                   tools[i].name = n /\ \A j \in (i + 1)..Len(tools) : tools[j].name # n
  IN [n \in (DOMAIN registry) \cup names |->
        IF n \in names
        THEN [description |-> tools[last(n)].description,
              properties |-> tools[last(n)].properties,
              required |-> tools[last(n)].required,
              server_name |-> server_name]
        ELSE registry[n]]

\* the empty registry of __init__
EmptyRegistry == [n \in {} |-> <<>>]

(***************************************************************************)
(* Client state                                                            *)
(***************************************************************************)
VARIABLES
  pc,                   \* where main() is: "start", "chat", "exited", "failed", "done"
  flight_session,       \* TRUE when self.flight_session is a connected session
  calendar_session,     \* TRUE when self.calendar_session is a connected session
  available_tools,      \* self.available_tools: tool name -> descriptor
  current_tool_state,   \* self.current_tool_state: None or Some(ToolState)
  conversation_history, \* self.conversation_history
  db,                   \* flight_booking.db
  turns,                \* number of lines read by input() that reached process_query
  last_query,           \* the line of the last turn
  path,                 \* branch the last turn took: "none", "collecting", "idle"
  message,              \* the model's reply to the initial request of the last turn
  checked,              \* the completeness test the last turn evaluated, if any
  calls,                \* call_tool requests issued in the last turn, in order
  requests,             \* completion requests sent to the model in the last turn
  raised,               \* the exception the last turn ended with, "none" if none
  printed,              \* what the last turn printed
  conns,                \* the store connections of running book_flight/cancel_booking calls
  lock,                 \* the connection that holds the store's write lock, 0 if none
  store_calls,          \* number of calls started on the connections
  returned,             \* successful calls per flight, and how many overlapped another call
  last_commit           \* the last transaction committed on a connection

\* the client's state without the store
client_vars ==
  <<pc, flight_session, calendar_session, available_tools, current_tool_state,
    conversation_history, turns, last_query, path, message, checked,
    calls, requests, raised, printed>>

\* the state of the connections
store_vars == <<conns, lock, store_calls, returned, last_commit>>

vars ==
  <<pc, flight_session, calendar_session, available_tools, current_tool_state,
    conversation_history, db, turns, last_query, path, message, checked,
    calls, requests, raised, printed, conns, lock, store_calls, returned,
    last_commit>>

(***************************************************************************)
(* Helpers of MultiServerClient                                            *)
(***************************************************************************)
InSeq(x, s) == \E i \in 1..Len(s) : s[i] = x

\* variant: a lookup that falls back to an empty descriptor, as
\* self.available_tools.get(tool_name, default) would
lookup_tool_with_default(registry, tool_name) ==
  IF tool_name \in DOMAIN registry THEN Some(registry[tool_name])
  ELSE Some([description |-> "", properties |-> <<>>, required |-> <<>>,
             server_name |-> "flight"])

\* self.available_tools[tool_name]; None stands for the KeyError
lookup_tool(registry, tool_name) ==
  IF tool_name \in DOMAIN registry THEN Some(registry[tool_name]) ELSE None

create_tool_state(tool_name, tool_info) ==
  LET isRequired(p) == InSeq(p, tool_info.required)
  IN [tool_name |-> tool_name,
      required_params |-> SelectSeq(tool_info.properties, isRequired),
      collected_params |-> EmptyDict,
      description |-> tool_info.description,
      server_name |-> tool_info.server_name]

\* variant: nothing is ever reported missing
get_missing_params_none(cts) == <<>>

get_missing_params(cts) ==
  IF cts = None THEN <<>>
  ELSE LET absent(p) == p \notin DOMAIN cts[1].collected_params
       IN SelectSeq(cts[1].required_params, absent)

\* variant: any(...) in place of all(...)
any_required_in(required, args) ==
  \E i \in 1..Len(required) : required[i] \in DOMAIN args

\* all(param in args for param in required)
all_required_in(required, args) ==
  \A i \in 1..Len(required) : required[i] \in DOMAIN args

\* variant: the names are listed without looking at args
not_in_unfiltered(seq, args) == seq

\* the names of seq that are not keys of args, in order
not_in(seq, args) ==
  LET absent(p) == p \notin DOMAIN args IN SelectSeq(seq, absent)

\* the backend behind a session executes the named tool
run_tool(server_name, tool_name, args, store, dbError) ==
  IF server_name = "flight" /\ tool_name = "search_flights"
  THEN search_flights(args, store, dbError)
  ELSE IF server_name = "flight" /\ tool_name = "book_flight"
  THEN book_flight(args, store, dbError)
  ELSE IF server_name = "flight" /\ tool_name = "cancel_booking"
  THEN cancel_booking(args, store, dbError)
  ELSE IF server_name = "flight" /\ tool_name = "get_user_bookings"
  THEN get_user_bookings(args, store, dbError)
  ELSE IF server_name = "calendar"
  THEN [result |-> "calendar event", db |-> store]
  ELSE [result |-> "Unknown tool", db |-> store]

\* session.call_tool(name, args); callError: the request raises and does not run
call_tool(server_name, tool_name, args, store, callError, dbError) ==
  LET call(ok, result) == [server_name |-> server_name, tool_name |-> tool_name,
                           arguments |-> args, ok |-> ok, result |-> result]
  IN IF callError
     THEN [raised |-> TRUE, result |-> "", db |-> store, call |-> call(FALSE, "")]
     ELSE LET r == run_tool(server_name, tool_name, args, store, dbError)
          IN [raised |-> FALSE, result |-> r.result, db |-> r.db,
              call |-> call(TRUE, r.result)]

\* the arguments _create_calendar_event sends
calendar_event_args ==
  Dict(<< <<P_instructions, V_time>>, <<P_summary, V_time>>, <<P_description, V_time>>,
          <<P_start_dateTime, V_time>>, <<P_end_dateTime, V_time>> >>)

\* variant: the lookup also asks for a free seat
flight_details_found_with_seat(flight_id, store) ==
  /\ IsDigits(flight_id)
  /\ ToInt(flight_id) \in DOMAIN store.available_seats
  /\ store.available_seats[ToInt(flight_id)] > 0

\* "SELECT ... FROM flights f ... WHERE f.flight_id = ?" returns a row
flight_details_found(flight_id, store) ==
  IsDigits(flight_id) /\ ToInt(flight_id) \in DOMAIN store.available_seats

\* _create_calendar_event; calError: the calendar call raises
create_calendar_event(flight_info, cal_session, store, calError) ==
  IF ~cal_session
  THEN [result |-> "Calendar server not connected", calls |-> <<>>]
  ELSE IF P_flight_id \notin DOMAIN flight_info
  THEN [result |-> "Error creating calendar event", calls |-> <<>>]
  ELSE IF ~flight_details_found(flight_info[P_flight_id], store)
  THEN [result |-> "Error: Flight details not found", calls |-> <<>>]
  ELSE [result |-> IF calError THEN "Error creating calendar event" ELSE "calendar event",
        calls |-> << [server_name |-> "calendar",
                      tool_name |-> "google_calendar_create_detailed_event",
                      arguments |-> calendar_event_args,
                      ok |-> ~calError,
                      result |-> IF calError THEN "" ELSE "calendar event"] >>]

(***************************************************************************)
(* Messages, model replies and the faults of one turn                      *)
(***************************************************************************)
SystemMsg ==
  [role |-> "system", content |-> <<"You are a helpful flight booking assistant.">>,
   tool_calls |-> <<>>]

UserMsg(query) == [role |-> "user", content |-> query, tool_calls |-> <<>>]

AssistantToolCall(tool_name, args) ==
  [role |-> "assistant", content |-> None,
   tool_calls |-> <<[name |-> tool_name, arguments |-> args]>>]

ToolMsg(result) == [role |-> "tool", content |-> <<result>>, tool_calls |-> <<>>]

\* a completion request: the messages and the tool list handed to the model
Completion(site, messages, registry) ==
  [site |-> site, messages |-> messages, tools |-> DOMAIN registry]

TextReply == [tool_calls |-> <<>>, content |-> "text"]

ToolReply(tool_name, pairs) ==
  [tool_calls |-> <<[name |-> tool_name, arguments |-> Dict(pairs)]>>, content |-> ""]

\* what the model may answer to the initial request
ModelMessages ==
  { TextReply,
    ToolReply("search_flights", <<>>),
    ToolReply("book_flight", <<>>),
    ToolReply("book_flight", << <<P_flight_id, V_1000>> >>),
    ToolReply("book_flight", << <<P_flight_id, V_1000>>, <<P_username, V_john_doe>> >>),
    ToolReply("book_flight", << <<P_flight_id, V_1000>>, <<P_username, V_nobody>> >>),
    ToolReply("book_flight", << <<P_flight_id, V_9>>, <<P_username, V_john_doe>> >>),
    ToolReply("cancel_booking", <<>>),
    ToolReply("cancel_booking", << <<P_booking_id, V_1>> >>),
    ToolReply("get_user_bookings", << <<P_username, V_john_doe>> >>),
    ToolReply("google_calendar_create_detailed_event", <<>>),
    ToolReply("send_email", <<>>) }

\* the statement of a turn that raises: at most one does, the turn ends there
RaiseSites ==
  {"none", "completion", "arguments_json", "call_tool", "final_completion",
   "final_content_none"}

\* one fault per turn: a statement that raises, a store statement that fails
\* inside the flight server, or a calendar call that fails
Faults ==
  [raise : RaiseSites, dbError : {FALSE}, calError : {FALSE}]
    \cup [raise : {"none"}, dbError : {TRUE}, calError : {FALSE}]
    \cup [raise : {"none"}, dbError : {FALSE}, calError : {TRUE}]

\* is the name json bound where the collecting branch reads it?  process_query
\* imports json in its idle branch, which makes json a local of the whole
\* function that is still unassigned when the collecting branch runs
json_bound_in_collecting == FALSE

Content(text) == [kind |-> "content", text |-> text, params |-> <<>>]

Prompt(kind, text, params) == [kind |-> kind, text |-> text, params |-> params]

\* the outcome of one process_query call
Outcome(cts, store, exc, response, path_, msg, chk, calls_, requests_) ==
  [cts |-> cts, db |-> store, raised |-> exc, response |-> response,
   path |-> path_, message |-> msg, checked |-> chk, calls |-> calls_,
   requests |-> requests_]

\* the final request to the model after a dispatch, and the return
final_response(store, path_, msg, chk, calls_, requests_, messages, registry, cts, fault) ==
  LET reqs == Append(requests_, Completion("final", messages, registry))
  IN IF fault.raise = "final_completion"
     THEN Outcome(cts, store, "final_completion", None, path_, msg, chk, calls_, reqs)
     ELSE Outcome(None, store, "none",
                  IF fault.raise = "final_content_none" THEN None
                  ELSE Some(Content("summary")),
                  path_, msg, chk, calls_, reqs)

(***************************************************************************)
(* process_query, branch "if self.current_tool_state: ... if missing_params" *)
(***************************************************************************)
process_collecting(cts, query, registry, cal_session, store, fault) ==
  LET ts == cts[1]
      messages == <<SystemMsg, UserMsg(query)>>
      missing_params == get_missing_params(cts)
      new_params == extract_parameters(query)
      collected == Update(ts.collected_params, new_params)
      cts2 == Some([ts EXCEPT !.collected_params = collected])
      chk == Some([tool_name |-> ts.tool_name, required |-> ts.required_params,
                   arguments |-> collected])
  IN IF all_required_in(ts.required_params, collected)
     THEN LET tool_info == registry[ts.tool_name]
              d == call_tool(tool_info.server_name, ts.tool_name, collected, store,
                             fault.raise = "call_tool", fault.dbError)
          IN IF d.raised
             THEN Outcome(cts2, store, "call_tool", None, "collecting", None, chk,
                          <<d.call>>, <<>>)
             ELSE LET cal == IF ts.tool_name = "book_flight"
                             THEN create_calendar_event(collected, cal_session, d.db,
                                                        fault.calError)
                             ELSE [result |-> "", calls |-> <<>>]
                      calls_ == <<d.call>> \o cal.calls
                  IN IF ~json_bound_in_collecting
                     THEN Outcome(cts2, d.db, "json_unbound", None, "collecting", None,
                                  chk, calls_, <<>>)
                     ELSE final_response(d.db, "collecting", None, chk, calls_, <<>>,
                            messages \o <<AssistantToolCall(ts.tool_name, collected),
                                          ToolMsg(d.result)>>,
                            registry, cts2, fault)
     ELSE Outcome(cts2, store, "none",
                  Some(Prompt("remaining", "Please provide the following information:",
                              not_in(missing_params, new_params))),
                  "collecting", None, chk, <<>>, <<>>)

(***************************************************************************)
(* process_query, from "Initial OpenAI API call" on                        *)
(***************************************************************************)
process_idle(cts, query, msg, registry, cal_session, store, fault) ==
  LET messages == <<SystemMsg, UserMsg(query)>>
      reqs == <<Completion("initial", messages, registry)>>
  IN IF fault.raise = "completion"
     THEN Outcome(cts, store, "completion", None, "idle", None, None, <<>>, reqs)
     ELSE IF msg.tool_calls = <<>>
     THEN Outcome(cts, store, "none", Some(Content(msg.content)), "idle", Some(msg),
                  None, <<>>, reqs)
     ELSE
       LET tool_name == msg.tool_calls[1].name
           found == lookup_tool(registry, tool_name)
       IN IF found = None
          THEN Outcome(cts, store, "unknown_tool", None, "idle", Some(msg), None,
                       <<>>, reqs)
          ELSE
            LET tool_info == found[1]
                ts == create_tool_state(tool_name, tool_info)
                tool_args == msg.tool_calls[1].arguments
                chk == Some([tool_name |-> tool_name, required |-> ts.required_params,
                             arguments |-> tool_args])
            IN IF fault.raise = "arguments_json"
               THEN Outcome(Some(ts), store, "arguments_json", None, "idle", Some(msg),
                            None, <<>>, reqs)
               ELSE IF all_required_in(ts.required_params, tool_args)
               THEN LET d == call_tool(tool_info.server_name, tool_name, tool_args,
                                       store, fault.raise = "call_tool", fault.dbError)
                    IN IF d.raised
                       THEN Outcome(Some(ts), store, "call_tool", None, "idle",
                                    Some(msg), chk, <<d.call>>, reqs)
                       ELSE LET cal == IF tool_name = "book_flight"
                                       THEN create_calendar_event(tool_args, cal_session,
                                                                  d.db, fault.calError)
                                       ELSE [result |-> "", calls |-> <<>>]
                            IN final_response(d.db, "idle", Some(msg), chk,
                                 <<d.call>> \o cal.calls, reqs,
                                 messages \o <<AssistantToolCall(tool_name, tool_args),
                                               ToolMsg(d.result)>>,
                                 registry, Some(ts), fault)
               ELSE Outcome(Some(ts), store, "none",
                            Some(Prompt("need", ts.description,
                                        not_in(ts.required_params, tool_args))),
                            "idle", Some(msg), chk, <<>>, reqs)

\* process_query(query)
process_query(cts, query, msg, registry, cal_session, store, fault) ==
  IF cts # None /\ get_missing_params(cts) # <<>>
  THEN process_collecting(cts, query, registry, cal_session, store, fault)
  ELSE process_idle(cts, query, msg, registry, cal_session, store, fault)

(***************************************************************************)
(* main(): construction, connect_to_servers, chat_loop, cleanup            *)
(***************************************************************************)
\* the connections that run calls against flight_booking.db at the same time
ConnIds == 1..NumConns

\* a connection with no call running; result and failed_at tell how its last
\* call ended
IdleConn(result, failed_at) ==
  [op |-> "idle", at |-> "return", flight_id |-> 0, username |-> <<>>,
   booking_id |-> 0, available_seats |-> 0, booking |-> None, tx |-> None,
   result |-> result, failed_at |-> failed_at]

\* no transaction has been committed on a connection yet
NoCommit ==
  [kind |-> "none", booking_id |-> 0, flight_id |-> 0, seats_before |-> 0,
   undoes_last |-> FALSE]

Init ==
  /\ pc = "start"
  /\ flight_session = FALSE
  /\ calendar_session = FALSE
  /\ available_tools = EmptyRegistry
  /\ current_tool_state = None
  /\ conversation_history = <<>>
  /\ db = SeedDb
  /\ turns = 0
  /\ last_query = None
  /\ path = "none"
  /\ message = None
  /\ checked = None
  /\ calls = <<>>
  /\ requests = <<>>
  /\ raised = "none"
  /\ printed = None
  /\ conns = [c \in ConnIds |-> IdleConn("", "")]
  /\ lock = 0
  /\ store_calls = 0
  /\ returned = [booked |-> [f \in FlightIds |-> 0],
                 cancelled |-> [f \in FlightIds |-> 0],
                 overlapped |-> 0]
  /\ last_commit = NoCommit

ConnectOutcomes == {"connected", "flight_fails", "calendar_fails"}

\* the body of connect_to_servers when the calendar backend advertises
\* calendar_tools; a failure runs cleanup() and re-raises, which ends main()
connect(calendar_tools) ==
  /\ \E outcome \in ConnectOutcomes :
       /\ available_tools' =
            IF outcome = "flight_fails" THEN available_tools
            ELSE IF outcome = "calendar_fails"
            THEN register(available_tools, FlightTools, "flight")
            ELSE register(register(available_tools, FlightTools, "flight"),
                          calendar_tools, "calendar")
       /\ flight_session' = (outcome = "connected")
       /\ calendar_session' = (outcome = "connected")
       /\ pc' = IF outcome = "connected" THEN "chat" ELSE "failed"
  /\ UNCHANGED <<current_tool_state, conversation_history, db, turns, last_query,
                 path, message, checked, calls, requests, raised, printed>>
  /\ UNCHANGED store_vars

\* connect_to_servers with the calendar backend's event tool
connect_to_servers ==
  /\ pc = "start"
  /\ connect(CalendarTools)

\* connect_to_servers with a calendar backend whose tool list collides
connect_to_colliding_servers ==
  /\ pc = "start"
  /\ connect(CollidingCalendarTools)

\* the replies the model can give in a turn: it answers only when the turn
\* reaches the initial completion request
Replies(cts) ==
  IF cts # None /\ get_missing_params(cts) # <<>> THEN {TextReply} ELSE ModelMessages

\* the lines input() may return in a turn
Lines(cts) == IF cts = None THEN IdleQueries ELSE Queries

\* variant: the handler prints and leaves the tool state as it is
on_error_keep(cts) == cts

\* "except Exception as e: ... self.current_tool_state = None"
on_error(cts) == None

\* the exception a turn ends with: the one process_query raised, or the
\* TypeError of print("\nAI: " + response) when response is None
turn_exception(r) ==
  IF r.raised # "none" THEN r.raised
  ELSE IF r.response = None THEN "print_type_error"
  ELSE "none"

\* one iteration of chat_loop that calls process_query and prints
chat_turn ==
  /\ pc = "chat"
  /\ turns < MaxTurns
  /\ \E line \in Lines(current_tool_state), msg \in Replies(current_tool_state),
        fault \in Faults :
       \E r \in {process_query(current_tool_state, Strip(line), msg, available_tools,
                               calendar_session, db, fault)} :
         \E exc \in {turn_exception(r)} :
          /\ Lower(Strip(line)) # Lower(Q_quit)
          /\ turns' = turns + 1
          /\ last_query' = Some(Strip(line))
          /\ current_tool_state' = IF exc # "none" THEN on_error(r.cts) ELSE r.cts
          /\ db' = r.db
          /\ path' = r.path
          /\ message' = r.message
          /\ checked' = r.checked
          /\ calls' = r.calls
          /\ requests' = r.requests
          /\ raised' = exc
          /\ printed' = IF exc # "none"
                        THEN Some([prefix |-> "Error: ", body |-> Content(exc)])
                        ELSE Some([prefix |-> "AI: ", body |-> r.response[1]])
  /\ UNCHANGED <<pc, flight_session, calendar_session, available_tools,
                 conversation_history>>
  /\ UNCHANGED store_vars

\* the iteration of chat_loop that reads the exit word
quit ==
  /\ pc = "chat"
  /\ Lower(Strip(Q_quit)) = <<"q", "u", "i", "t">>
  /\ pc' = "exited"
  /\ UNCHANGED <<flight_session, calendar_session, available_tools,
                 current_tool_state, conversation_history, db, turns, last_query,
                 path, message, checked, calls, requests, raised, printed>>
  /\ UNCHANGED store_vars

\* cleanup() in main's finally
cleanup ==
  /\ pc \in {"exited", "failed"}
  /\ flight_session' = FALSE
  /\ calendar_session' = FALSE
  /\ pc' = "done"
  /\ UNCHANGED <<available_tools, current_tool_state, conversation_history, db,
                 turns, last_query, path, message, checked, calls, requests,
                 raised, printed>>
  /\ UNCHANGED store_vars

Next == connect_to_servers \/ chat_turn \/ quit \/ cleanup

Spec == Init /\ [][Next]_vars

NextCollision == connect_to_colliding_servers \/ chat_turn \/ quit \/ cleanup

\* the client against a calendar backend whose tool list collides
SpecCollision == Init /\ [][NextCollision]_vars

(***************************************************************************)
(* book_flight and cancel_booking statement by statement, on connections   *)
(* of their own                                                            *)
(***************************************************************************)
\* the arguments of the book_flight calls
BookInputs ==
  {[flight_id |-> FirstFlightId, username |-> V_john_doe],
   [flight_id |-> FirstFlightId + 1, username |-> V_jane_smith],
   [flight_id |-> FirstFlightId, username |-> V_nobody],
   [flight_id |-> 9, username |-> V_john_doe]}

\* the arguments of the cancel_booking calls: seeded bookings, the first
\* booking a call creates, and a booking that does not exist
CancelInputs == {1, 3, Len(SeedBookings) + 1, 9}

\* the handler returns: the connection is dropped
Return(c, result, failed_at) == [conns EXCEPT ![c] = IdleConn(result, failed_at)]

\* a tool call arrives and opens a connection (get_db_connection)
store_call(c) ==
  /\ conns[c].op = "idle"
  /\ store_calls < MaxStoreCalls
  /\ store_calls' = store_calls + 1
  /\ \/ \E a \in BookInputs :
          conns' = [conns EXCEPT ![c] =
                      [IdleConn("", "") EXCEPT !.op = "book_flight",
                                               !.at = "select_seats",
                                               !.flight_id = a.flight_id,
                                               !.username = a.username]]
     \/ \E b \in CancelInputs :
          conns' = [conns EXCEPT ![c] =
                      [IdleConn("", "") EXCEPT !.op = "cancel_booking",
                                               !.at = "select_booking",
                                               !.booking_id = b]]
  /\ UNCHANGED <<db, lock, returned, last_commit>>
  /\ UNCHANGED client_vars

\* book_flight: SELECT available_seats ... and the two tests on its result
book_select_seats(c) ==
  /\ conns[c].op = "book_flight" /\ conns[c].at = "select_seats"
  /\ conns' =
       IF conns[c].flight_id \notin DOMAIN db.available_seats
       THEN Return(c, "Error: Flight not found", "")
       ELSE IF db.available_seats[conns[c].flight_id] <= 0
       THEN Return(c, "Error: No seats available on this flight", "")
       ELSE [conns EXCEPT ![c].available_seats = db.available_seats[conns[c].flight_id],
                          ![c].at = "select_user"]
  /\ UNCHANGED <<db, lock, store_calls, returned, last_commit>>
  /\ UNCHANGED client_vars

\* book_flight: SELECT user_id ... and the test on its result
book_select_user(c) ==
  /\ conns[c].op = "book_flight" /\ conns[c].at = "select_user"
  /\ conns' =
       IF conns[c].username \notin DOMAIN Users
       THEN Return(c, "Error: User not found", "")
       ELSE [conns EXCEPT ![c].at = "insert"]
  /\ UNCHANGED <<db, lock, store_calls, returned, last_commit>>
  /\ UNCHANGED client_vars

\* book_flight: INSERT INTO bookings; the first write opens the transaction
\* and takes the write lock
book_insert(c) ==
  /\ conns[c].op = "book_flight" /\ conns[c].at = "insert"
  /\ lock = 0
  /\ lock' = c
  /\ conns' = [conns EXCEPT
                 ![c].tx = Some([db EXCEPT !.bookings =
                                   Append(@, [user_id |-> Users[conns[c].username],
                                              flight_id |-> conns[c].flight_id,
                                              status |-> "CONFIRMED"])]),
                 ![c].at = "update_seats"]
  /\ UNCHANGED <<db, store_calls, returned, last_commit>>
  /\ UNCHANGED client_vars

\* variant: the new value is computed from the value read by the SELECT
seats_after_booking_from_read(in_tx, read) == read - 1

\* SET available_seats = available_seats - 1
seats_after_booking(in_tx, read) == in_tx - 1

\* book_flight: UPDATE flights, inside the transaction
book_update_seats(c) ==
  /\ conns[c].op = "book_flight" /\ conns[c].at = "update_seats"
  /\ conns' = [conns EXCEPT
                 ![c].tx = Some([conns[c].tx[1] EXCEPT
                                   !.available_seats[conns[c].flight_id] =
                                      seats_after_booking(@, conns[c].available_seats)]),
                 ![c].at = "commit"]
  /\ UNCHANGED <<db, lock, store_calls, returned, last_commit>>
  /\ UNCHANGED client_vars

\* a call commits while another connection has a call running
Overlaps(c) == \E o \in ConnIds \ {c} : conns[o].op # "idle"

\* book_flight: conn.commit() and the return of the confirmation
book_commit(c) ==
  /\ conns[c].op = "book_flight" /\ conns[c].at = "commit"
  /\ db' = conns[c].tx[1]
  /\ lock' = 0
  /\ conns' = Return(c, "Successfully booked flight", "")
  /\ returned' = [returned EXCEPT
                    !.booked[conns[c].flight_id] = @ + 1,
                    !.overlapped = IF Overlaps(c) THEN @ + 1 ELSE @]
  /\ last_commit' = [kind |-> "book_flight",
                     booking_id |-> Len(conns[c].tx[1].bookings),
                     flight_id |-> conns[c].flight_id,
                     seats_before |-> db.available_seats[conns[c].flight_id],
                     undoes_last |-> FALSE]
  /\ UNCHANGED store_calls
  /\ UNCHANGED client_vars

\* cancel_booking: SELECT b.flight_id, b.status ... and the two tests
cancel_select_booking(c) ==
  /\ conns[c].op = "cancel_booking" /\ conns[c].at = "select_booking"
  /\ conns' =
       IF conns[c].booking_id \notin 1..Len(db.bookings)
       THEN Return(c, "Error: Booking not found", "")
       ELSE IF db.bookings[conns[c].booking_id].status = "CANCELLED"
       THEN Return(c, "Error: Booking is already cancelled", "")
       ELSE [conns EXCEPT ![c].booking = Some(db.bookings[conns[c].booking_id]),
                          ![c].flight_id = db.bookings[conns[c].booking_id].flight_id,
                          ![c].at = "update_status"]
  /\ UNCHANGED <<db, lock, store_calls, returned, last_commit>>
  /\ UNCHANGED client_vars

\* cancel_booking: UPDATE bookings SET status = 'CANCELLED'; the first write
\* opens the transaction and takes the write lock
cancel_update_status(c) ==
  /\ conns[c].op = "cancel_booking" /\ conns[c].at = "update_status"
  /\ lock = 0
  /\ lock' = c
  /\ conns' = [conns EXCEPT
                 ![c].tx = Some([db EXCEPT
                                   !.bookings[conns[c].booking_id].status = "CANCELLED"]),
                 ![c].at = "update_seats"]
  /\ UNCHANGED <<db, store_calls, returned, last_commit>>
  /\ UNCHANGED client_vars

\* variant: the seat is not given back
seats_after_cancel_kept(in_tx) == in_tx

\* SET available_seats = available_seats + 1
seats_after_cancel(in_tx) == in_tx + 1

\* cancel_booking: UPDATE flights, inside the transaction
cancel_update_seats(c) ==
  /\ conns[c].op = "cancel_booking" /\ conns[c].at = "update_seats"
  /\ conns' = [conns EXCEPT
                 ![c].tx = Some([conns[c].tx[1] EXCEPT
                                   !.available_seats[conns[c].booking[1].flight_id] =
                                      seats_after_cancel(@)]),
                 ![c].at = "commit"]
  /\ UNCHANGED <<db, lock, store_calls, returned, last_commit>>
  /\ UNCHANGED client_vars

\* cancel_booking: conn.commit() and the return of the confirmation
cancel_commit(c) ==
  /\ conns[c].op = "cancel_booking" /\ conns[c].at = "commit"
  /\ db' = conns[c].tx[1]
  /\ lock' = 0
  /\ conns' = Return(c, "Successfully cancelled booking", "")
  /\ returned' = [returned EXCEPT
                    !.cancelled[conns[c].booking[1].flight_id] = @ + 1,
                    !.overlapped = IF Overlaps(c) THEN @ + 1 ELSE @]
  /\ last_commit' = [kind |-> "cancel_booking",
                     booking_id |-> conns[c].booking_id,
                     flight_id |-> conns[c].booking[1].flight_id,
                     seats_before |-> db.available_seats[conns[c].booking[1].flight_id],
                     undoes_last |-> /\ last_commit.kind = "book_flight"
                                     /\ last_commit.booking_id = conns[c].booking_id]
  /\ UNCHANGED store_calls
  /\ UNCHANGED client_vars

\* variant: what the transaction wrote so far is kept
rollback_keeps_writes(committed, tx) == IF tx = None THEN committed ELSE tx[1]

\* conn.rollback(): the store is what was committed before the transaction
rollback(committed, tx) == committed

\* a statement or the commit raises (the store is locked by another
\* connection, or any other error): the handler's except clause rolls back
\* and returns the error text
store_raise(c) ==
  /\ conns[c].op # "idle"
  /\ db' = rollback(db, conns[c].tx)
  /\ lock' = IF lock = c THEN 0 ELSE lock
  /\ conns' = Return(c, IF conns[c].op = "book_flight" THEN "Error booking flight"
                        ELSE "Error cancelling booking",
                     conns[c].at)
  /\ UNCHANGED <<store_calls, returned, last_commit>>
  /\ UNCHANGED client_vars

NextStore ==
  \E c \in ConnIds :
    \/ store_call(c)
    \/ book_select_seats(c)
    \/ book_select_user(c)
    \/ book_insert(c)
    \/ book_update_seats(c)
    \/ book_commit(c)
    \/ cancel_select_booking(c)
    \/ cancel_update_status(c)
    \/ cancel_update_seats(c)
    \/ cancel_commit(c)
    \/ store_raise(c)

\* the flight server's handlers running on NumConns connections
SpecStore == Init /\ [][NextStore]_vars

\* a tool call arrives while no other call is running
store_call_alone(c) ==
  /\ \A o \in ConnIds : conns[o].op = "idle"
  /\ store_call(c)

NextStoreSeq ==
  \E c \in ConnIds :
    \/ store_call_alone(c)
    \/ book_select_seats(c)
    \/ book_select_user(c)
    \/ book_insert(c)
    \/ book_update_seats(c)
    \/ book_commit(c)
    \/ cancel_select_booking(c)
    \/ cancel_update_status(c)
    \/ cancel_update_seats(c)
    \/ cancel_commit(c)
    \/ store_raise(c)

\* the flight server's handlers called one after the other
SpecStoreSeq == Init /\ [][NextStoreSeq]_vars

(***************************************************************************)
(* Properties                                                              *)
(***************************************************************************)
SeqToSet(seq) == {seq[i] : i \in 1..Len(seq)}

\* a step that is one chat_loop iteration through process_query
IsTurn == turns' = turns + 1

\* the tool call the model asked for in the last turn, as a set of at most one
Requested == IF message = None THEN {} ELSE SeqToSet(message[1].tool_calls)

\* the calendar calls the last turn chained behind its dispatch
ChainedCalls ==
  {i \in 2..Len(calls) : calls[i].server_name = "calendar"
                         /\ calls[i].tool_name = "google_calendar_create_detailed_event"}

BookingSucceeded ==
  /\ calls # <<>>
  /\ calls[1].tool_name = "book_flight"
  /\ calls[1].result = "Successfully booked flight"

ErrorPrinted == printed = Some([prefix |-> "Error: ", body |-> Content(raised)])

\* C1: when an Idle turn creates a pending tool call because the model's
\* arguments lack a required parameter, the pending call holds every
\* argument the model did supply (so that a reply with only the prompted
\* names completes it).
C1_PendingHoldsModelArgs ==
  (path = "idle" /\ current_tool_state # None)
    => \A tc \in Requested :
         \A k \in DOMAIN tc.arguments :
           /\ k \in DOMAIN current_tool_state[1].collected_params
           /\ current_tool_state[1].collected_params[k] = tc.arguments[k]

\* C2: a CollectingArgs turn whose merge completes the required parameters,
\* and whose backend call goes through, ends with the model's summary printed
\* and the orchestrator Idle, not with an error.
C2_CompleteCollectingTurnEndsWithSummary ==
  (path = "collecting" /\ calls # <<>> /\ calls[1].ok)
    => /\ raised = "none"
       /\ printed = Some([prefix |-> "AI: ", body |-> Content("summary")])
       /\ current_tool_state = None

\* C3: in every turn that tests a tool request for completeness, the backend
\* is called for that tool exactly when every required parameter of the
\* registry's schema is a key of the tested arguments; a turn without such a
\* test calls no backend; and no call ever lacks a required parameter.
C3_DispatchIffComplete ==
  /\ \A c \in SeqToSet(checked) :
       (\E i \in 1..Len(calls) :
            /\ calls[i].tool_name = c.tool_name
            /\ calls[i].arguments = c.arguments
            /\ calls[i].server_name = available_tools[c.tool_name].server_name)
         <=> (SeqToSet(available_tools[c.tool_name].required) \subseteq DOMAIN c.arguments)
  /\ (checked = None => calls = <<>>)
  /\ \A i \in 1..Len(calls) :
       /\ calls[i].tool_name \in DOMAIN available_tools
       /\ SeqToSet(available_tools[calls[i].tool_name].required)
            \subseteq DOMAIN calls[i].arguments

\* C3 witness: a collecting turn dispatched book_flight after the merge
C3_Witness ==
  /\ path = "collecting"
  /\ calls # <<>>
  /\ calls[1].tool_name = "book_flight"
  /\ DOMAIN calls[1].arguments = {P_flight_id, P_username}

\* C4: a calendar event is chained only behind a book_flight dispatch that
\* succeeded; when book_flight reports a failure no calendar call is made.
C4_CalendarOnlyAfterSuccessfulBooking ==
  ChainedCalls # {} => BookingSucceeded

\* C5: a turn in which book_flight was dispatched and succeeded attempts
\* exactly one calendar create-event call when the calendar session is
\* connected and none when it is not, on either path.
C5_OneCalendarAttemptPerBooking ==
  (pc = "chat" /\ BookingSucceeded)
    => Cardinality(ChainedCalls) = IF calendar_session THEN 1 ELSE 0

\* C5 witness: the collecting path booked a flight and chained one calendar call
C5_Witness ==
  /\ pc = "chat"
  /\ path = "collecting"
  /\ BookingSucceeded
  /\ calendar_session
  /\ Cardinality(ChainedCalls) = 1

\* C6: the conversation is never shortened, and every completion request
\* carries all of it: one user message for each turn taken so far, in order,
\* the last being this turn's text.
C6_ModelGetsWholeConversation ==
  \A i \in 1..Len(requests) :
    LET isUser(m) == m.role = "user"
        users == SelectSeq(requests[i].messages, isUser)
    IN /\ Len(users) = turns
       /\ users[Len(users)].content = last_query[1]

C8_UnknownToolNeverPendingOrDispatched ==
  [][/\ \A ts \in SeqToSet(current_tool_state') : ts.tool_name \in DOMAIN available_tools'
     /\ \A i \in 1..Len(calls') : calls'[i].tool_name \in DOMAIN available_tools'
     /\ IsTurn =>
          \A tc \in Requested' :
            tc.name \notin DOMAIN available_tools'
              => /\ current_tool_state' = None
                 /\ calls' = <<>>
                 /\ raised' = "unknown_tool"
                 /\ ErrorPrinted'
                 /\ pc' = "chat"]_vars

\* C8 witness: the model asked for a tool no backend advertises
C8_Witness ==
  /\ \E tc \in Requested : tc.name \notin DOMAIN available_tools
  /\ raised = "unknown_tool"
  /\ calls = <<>>
  /\ current_tool_state = None

\* C9: the keys collected for a pending tool call are always among its
\* required parameter names.
C9_CollectedSubsetOfRequired ==
  \A ts \in SeqToSet(current_tool_state) :
    DOMAIN ts.collected_params \subseteq SeqToSet(ts.required_params)

\* is a required parameter of the pending call still to be collected?
PendingIncomplete ==
  \E ts \in SeqToSet(current_tool_state) :
    \E p \in SeqToSet(ts.required_params) : p \notin DOMAIN ts.collected_params

\* C10: a turn taken while the pending call misses a required parameter sends
\* no initial request to the model, and the pending call keeps its tool name
\* and required set unless it is cleared; no step replaces a pending call by
\* another.
C10_NoNewRequestWhilePending ==
  [][/\ (IsTurn /\ PendingIncomplete)
          => \A i \in 1..Len(requests') : requests'[i].site # "initial"
     /\ current_tool_state # None
          => \/ current_tool_state' = None
             \/ /\ current_tool_state' # None
                /\ current_tool_state'[1].tool_name = current_tool_state[1].tool_name
                /\ current_tool_state'[1].required_params
                     = current_tool_state[1].required_params]_vars

\* C10 witness: a collecting turn merged a line and the call is still pending
C10_Witness ==
  /\ path = "collecting"
  /\ PendingIncomplete
  /\ requests = <<>>

\* the required names of a registered tool that are not keys of args, in the
\* order of the schema's properties
StillMissing(tool_name, args) ==
  LET wanted(p) == /\ p \in SeqToSet(available_tools[tool_name].required)
                   /\ p \notin DOMAIN args
  IN SelectSeq(available_tools[tool_name].properties, wanted)

\* C11: a CollectingArgs turn whose merge leaves the call incomplete prints a
\* prompt that lists exactly the required parameters still absent after the
\* merge, at least one, in schema order, and the same tool stays pending.
C11_PromptListsStillMissing ==
  (path = "collecting" /\ raised = "none")
    => /\ current_tool_state # None
       /\ \A c \in SeqToSet(checked) :
            /\ current_tool_state[1].tool_name = c.tool_name
            /\ current_tool_state[1].collected_params = c.arguments
       /\ \A pr \in SeqToSet(printed) :
            /\ pr.prefix = "AI: "
            /\ pr.body.kind = "remaining"
            /\ pr.body.params # <<>>
            /\ pr.body.params
                 = StillMissing(current_tool_state[1].tool_name,
                                current_tool_state[1].collected_params)

\* C11 witness: flight_id was merged and the prompt asks for username only
C11_Witness ==
  /\ path = "collecting"
  /\ raised = "none"
  /\ current_tool_state # None
  /\ DOMAIN current_tool_state[1].collected_params = {P_flight_id}
  /\ printed[1].body.params = <<P_username>>

\* the texts that stand before the first ':' of a line of text, trimmed and
\* lower-cased
KeysTyped(text) ==
  LET lines == Split(text, "\n")
      firsts(line) == {j \in 1..Len(line) :
                         line[j] = ":" /\ \A k \in 1..(j - 1) : line[k] # ":"}
      keys(line) == {Lower(Strip(SubSeq(line, 1, j - 1))) : j \in firsts(line)}
  IN UNION {keys(lines[n]) : n \in 1..Len(lines)}

\* C12: the merge of a collecting turn keeps every key collected before it,
\* and every key it adds is the trimmed, lower-cased text before the first
\* ':' of a line of the user's text; a line without ':' adds nothing.
C12_MergeIsMonotonic ==
  [][(IsTurn /\ path' = "collecting")
       => \A c \in SeqToSet(checked') :
            /\ DOMAIN current_tool_state[1].collected_params \subseteq DOMAIN c.arguments
            /\ (DOMAIN c.arguments) \ (DOMAIN current_tool_state[1].collected_params)
                 \subseteq KeysTyped(last_query'[1])]_vars

\* C12 witness: "Username : jane_smith" was merged after flight_id
C12_Witness ==
  /\ path = "collecting"
  /\ last_query = Some(Q_Username)
  /\ \E c \in SeqToSet(checked) :
       /\ DOMAIN c.arguments = {P_flight_id, P_username}
       /\ c.arguments[P_username] = V_jane_smith

\* the chained calendar step of the last turn failed or was skipped
CalendarFailedOrSkipped == \A i \in ChainedCalls : ~calls[i].ok

\* what _create_calendar_event returns when it fails or skips
CalendarFailureTexts ==
  {"Calendar server not connected", "Error: Flight details not found",
   "Error creating calendar event"}

\* C13: when the calendar step chained behind a successful book_flight fails
\* or is skipped, the booking row and the seat decrement stay committed and
\* the turn goes on with the booking result instead of ending in an error.
C13_BookingSurvivesCalendarFailure ==
  [][(IsTurn /\ BookingSucceeded' /\ CalendarFailedOrSkipped')
       => LET flight_id == ToInt(calls'[1].arguments[P_flight_id])
          IN /\ db'.bookings
                  = Append(db.bookings,
                           [user_id |-> Users[calls'[1].arguments[P_username]],
                            flight_id |-> flight_id,
                            status |-> "CONFIRMED"])
             /\ db'.available_seats[flight_id] = db.available_seats[flight_id] - 1
             /\ raised' = "none"
             /\ printed' = Some([prefix |-> "AI: ", body |-> Content("summary")])]_vars

\* C14: when the calendar step chained behind a successful book_flight fails
\* or is skipped, the turn's output or a message handed to the model carries
\* the calendar failure.
C14_CalendarFailureIsReported ==
  (BookingSucceeded /\ CalendarFailedOrSkipped)
    => \/ \E t \in CalendarFailureTexts :
            printed = Some([prefix |-> "AI: ", body |-> Content(t)])
       \/ \E i \in 1..Len(requests) :
            \E j \in 1..Len(requests[i].messages) :
              \E t \in CalendarFailureTexts :
                requests[i].messages[j].content = <<t>>

\* the committed store db2 is db1 with one booking row inserted as CONFIRMED
\* and the seat of its flight taken
BookedPair(db1, db2) ==
  \E f \in DOMAIN db1.available_seats, u \in {Users[n] : n \in DOMAIN Users} :
    /\ db2.bookings = Append(db1.bookings,
                             [user_id |-> u, flight_id |-> f, status |-> "CONFIRMED"])
    /\ db2.available_seats = [db1.available_seats EXCEPT ![f] = @ - 1]

\* the committed store db2 is db1 with one booking set to CANCELLED and the
\* seat of its flight given back
CancelledPair(db1, db2) ==
  \E b \in 1..Len(db1.bookings) :
    /\ db2.bookings = [db1.bookings EXCEPT ![b].status = "CANCELLED"]
    /\ db2.available_seats
         = [db1.available_seats EXCEPT ![db1.bookings[b].flight_id] = @ + 1]

\* connection c returns from its call in this step
Returns(c) == conns[c].op # "idle" /\ conns'[c].op = "idle"

\* C15: the two writes of book_flight and of cancel_booking reach the
\* committed store together or not at all: a call that returns success has
\* committed both, and a call that returns an error or fails between its two
\* writes has committed neither.
C15_WritesCommitTogether ==
  [][/\ db' # db => BookedPair(db, db') \/ CancelledPair(db, db')
     /\ \A c \in ConnIds :
          Returns(c) =>
            IF conns'[c].result = "Successfully booked flight"
            THEN BookedPair(db, db')
            ELSE IF conns'[c].result = "Successfully cancelled booking"
            THEN CancelledPair(db, db')
            ELSE db' = db]_vars

\* C15 witness: a book_flight call failed between its INSERT and its UPDATE
\* and the store holds neither
C15_Witness ==
  /\ \E c \in ConnIds : /\ conns[c].result = "Error booking flight"
                        /\ conns[c].failed_at = "update_seats"
  /\ db = SeedDb

\* C16: with calls interleaved on separate connections no seat update is
\* lost: every flight's available_seats is its initial value minus the
\* book_flight calls that succeeded plus the cancel_booking calls that
\* succeeded for it.
C16_NoLostSeatUpdate ==
  \A f \in FlightIds :
    db.available_seats[f] = SeedSeats - returned.booked[f] + returned.cancelled[f]

\* C16 witness: two calls that overlapped another call have both succeeded
\* for flight 1000 and every call has returned
C16_Witness ==
  /\ returned.overlapped >= 2
  /\ returned.booked[FirstFlightId] + returned.cancelled[FirstFlightId] >= 2
  /\ \A c \in ConnIds : conns[c].op = "idle"

\* C17: a cancel_booking that commits right after the book_flight that
\* created its booking leaves the flight's available_seats at the value it
\* had before the booking.
C17_BookThenCancelRestoresSeats ==
  [][\A c \in ConnIds :
       (/\ Returns(c)
        /\ conns'[c].result = "Successfully cancelled booking"
        /\ last_commit.kind = "book_flight"
        /\ last_commit.booking_id = conns[c].booking_id)
         => db'.available_seats[last_commit.flight_id] = last_commit.seats_before]_vars

\* C17 witness: the last commit cancelled the booking made by the commit
\* before it
C17_Witness ==
  /\ last_commit.kind = "cancel_booking"
  /\ last_commit.undoes_last
  /\ db.bookings[last_commit.booking_id].status = "CANCELLED"

\* the result of the turn's dispatch was handed to the model for the summary
ResultSurfaced ==
  \E i \in 1..Len(requests) :
    /\ requests[i].site = "final"
    /\ InSeq(ToolMsg(calls[1].result), requests[i].messages)

\* C18: a cancel_booking dispatched for a booking that is already CANCELLED
\* reports an error and changes no seat count and no booking status, so the
\* booking releases its seat once however often it is cancelled; the
\* orchestrator surfaces the message and the turn ends in Idle.
C18_CancelOfCancelledIsSurfaced ==
  [][(/\ IsTurn
      /\ calls' # <<>>
      /\ calls'[1].tool_name = "cancel_booking"
      /\ calls'[1].ok
      /\ P_booking_id \in DOMAIN calls'[1].arguments
      /\ IsDigits(calls'[1].arguments[P_booking_id])
      /\ ToInt(calls'[1].arguments[P_booking_id]) \in 1..Len(db.bookings)
      /\ db.bookings[ToInt(calls'[1].arguments[P_booking_id])].status = "CANCELLED")
       => /\ calls'[1].result \in {"Error: Booking is already cancelled",
                                   "Error cancelling booking"}
          /\ db' = db
          /\ current_tool_state' = None
          /\ ResultSurfaced']_vars

\* the model asked for a registered tool that requires no parameter
RequestedNeedsNothing ==
  \E tc \in Requested : /\ tc.name \in DOMAIN available_tools
                        /\ available_tools[tc.name].required = <<>>

\* C19: a request for a registered tool without required parameters is
\* dispatched in the turn it is made and never becomes a pending tool call:
\* the turn ends Idle, and no pending tool call is ever one without required
\* parameters.
C19_NoRequiredMeansImmediateDispatch ==
  /\ \A ts \in SeqToSet(current_tool_state) : ts.required_params # <<>>
  /\ \A tc \in Requested :
       (/\ tc.name \in DOMAIN available_tools
        /\ available_tools[tc.name].required = <<>>)
         => /\ current_tool_state = None
            /\ path = "idle"
            /\ raised # "arguments_json"
                 => /\ Len(calls) = 1
                    /\ calls[1].tool_name = tc.name
                    /\ calls[1].arguments = tc.arguments
                    /\ calls[1].server_name = available_tools[tc.name].server_name

\* C19 witness: search_flights was requested with {} and dispatched
C19_Witness ==
  /\ RequestedNeedsNothing
  /\ raised = "none"
  /\ calls # <<>>
  /\ calls[1].tool_name = "search_flights"
  /\ calls[1].arguments = EmptyDict
  /\ calls[1].ok
  /\ current_tool_state = None

\* the tool names both backends advertise
CollidingNames ==
  {FlightTools[i].name : i \in 1..Len(FlightTools)}
    \cap {CollidingCalendarTools[i].name : i \in 1..Len(CollidingCalendarTools)}

\* C20: when both backends advertise a tool name, the registry entry after
\* connecting is the calendar backend's (schema, description, session), and
\* every dispatch of that name goes to the calendar session.
C20_CollisionLastWriteWins ==
  /\ pc = "chat" =>
       \A i \in 1..Len(CollidingCalendarTools) :
         CollidingCalendarTools[i].name \in CollidingNames =>
           /\ CollidingCalendarTools[i].name \in DOMAIN available_tools
           /\ available_tools[CollidingCalendarTools[i].name]
                = [description |-> CollidingCalendarTools[i].description,
                   properties |-> CollidingCalendarTools[i].properties,
                   required |-> CollidingCalendarTools[i].required,
                   server_name |-> "calendar"]
  /\ \A i \in 1..Len(calls) :
       calls[i].tool_name \in CollidingNames => calls[i].server_name = "calendar"

\* C20 witness: search_flights, advertised by both, was dispatched to the
\* calendar session
C20_Witness ==
  /\ "search_flights" \in CollidingNames
  /\ calls # <<>>
  /\ calls[1].tool_name = "search_flights"
  /\ calls[1].server_name = "calendar"
  /\ calls[1].ok
  /\ db = SeedDb

\* the CONFIRMED bookings of flight f in store d
Confirmed(d, f) ==
  {b \in 1..Len(d.bookings) :
     d.bookings[b].flight_id = f /\ d.bookings[b].status = "CONFIRMED"}

\* C21: with book_flight and cancel_booking called one after the other from
\* the seeded store, every flight's available_seats plus the number of its
\* CONFIRMED bookings stays what it was in the seeded store.
C21_SeatsPlusConfirmedIsConstant ==
  \A f \in FlightIds :
    db.available_seats[f] + Cardinality(Confirmed(db, f))
      = SeedDb.available_seats[f] + Cardinality(Confirmed(SeedDb, f))

\* C22: no flight's available_seats is ever negative, also when book_flight
\* calls for one flight run at the same time on separate connections.
C22_SeatsNeverNegative ==
  \A f \in FlightIds : db.available_seats[f] >= 0

\* the CANCELLED bookings of flight f in store d
Cancelled(d, f) ==
  {b \in 1..Len(d.bookings) :
     d.bookings[b].flight_id = f /\ d.bookings[b].status = "CANCELLED"}

\* C23: cancel_booking calls that run at the same time for one booking
\* release at most one seat: no more calls have returned success for a
\* flight than the flight has cancelled bookings, and its available_seats
\* has risen by no more than one per cancelled booking.
C23_OneSeatPerCancelledBooking ==
  \A f \in FlightIds :
    /\ returned.cancelled[f] <= Cardinality(Cancelled(db, f))
    /\ db.available_seats[f]
         <= SeedSeats - returned.booked[f] + Cardinality(Cancelled(db, f))

\* text holds a line "<name>: <value>" for every name of names, spelled as
\* in names
AnswersExactly(text, names) ==
  LET lines == Split(text, "\n")
  IN \A i \in 1..Len(names) :
       \E n \in 1..Len(lines) :
         /\ Len(lines[n]) > Len(names[i]) + 2
         /\ SubSeq(lines[n], 1, Len(names[i]) + 2) = names[i] \o <<":", " ">>

\* the last turn printed a prompt that lists every required parameter the
\* pending tool call still lacks
PromptListsAllMissing ==
  /\ PendingIncomplete
  /\ printed # None
  /\ printed[1].prefix = "AI: "
  /\ printed[1].body.kind \in {"need", "remaining"}
  /\ printed[1].body.params = get_missing_params(current_tool_state)

\* C24: when the prompt lists the parameters a pending tool call lacks and
\* the user answers with a line "<name>: <value>" for each listed name,
\* spelled as listed, the call is complete after that turn and has been
\* dispatched, whatever the letter case of the names.
C24_AnsweringThePromptCompletes ==
  [][(/\ IsTurn
      /\ PromptListsAllMissing
      /\ AnswersExactly(last_query'[1], printed[1].body.params))
       => /\ \A c \in SeqToSet(checked') :
               SeqToSet(c.required) \subseteq DOMAIN c.arguments
          /\ calls' # <<>>
          /\ calls'[1].tool_name = current_tool_state[1].tool_name]_vars

====
